---- MODULE Spec2Model ----
(***************************************************************************)
(* Model of go-csv-merger (src/main.go): main runs processFiles, which     *)
(* walks the input directory and merges every .csv file into one output    *)
(* file through a buffered csv.Writer, and then archiveAndCleanup, which   *)
(* moves the merged file and the top-level input files into a timestamped  *)
(* archive subdirectory.                                                   *)
(*                                                                         *)
(* File names are sequences of character tokens, so that the string        *)
(* functions the code calls (ToLower, HasSuffix, Ext, TrimSuffix) are      *)
(* computed.  Files on disk hold whole records: a failed write leaves a    *)
(* prefix of the records that were being written.                          *)
(***************************************************************************)
EXTENDS Integers, Sequences, FiniteSets, TLC

VARIABLES
    clock,          \* time.Now(), in ticks
    runs,           \* number of process invocations started so far
    tree,           \* entries under the input root, in filepath.Walk order
    present,        \* entries of tree that are still under the input root
    pc,             \* position of main
    idx,            \* position of filepath.Walk in tree
    outExists,      \* the output file exists in the output directory
    outFile,        \* records held by the output file on disk
    buf,            \* records buffered in the csv.Writer (bufio.Writer)
    werr,           \* sticky error of the bufio.Writer
    writeFailed,    \* a write to the output file has returned an error
    headerWritten,  \* processFiles local
    filesProcessed, \* processFiles local
    mergeErr,       \* what processFiles returned: "none" while running
    archiveSubDir,  \* stamp naming this run's archive subdirectory, -1 if none
    mkdirExisted,   \* os.MkdirAll found archiveSubDir already existing
    archDirs,       \* stamps of the subdirectories under the archive root
    archFiles,      \* archFiles[t]: files in archive subdirectory t
    files,          \* os.ReadDir listing used by archiveAndCleanup
    aidx,           \* position of the archive loop in files
    warnRead,       \* entries with a "WARNING: Could not open/read" log line
    warnMove        \* entries with a "WARNING: Failed to archive" log line

vars == <<clock, runs, tree, present, pc, idx, outExists, outFile, buf, werr,
          writeFailed, headerWritten, filesProcessed, mergeErr, archiveSubDir,
          mkdirExisted, archDirs, archFiles, files, aidx, warnRead, warnMove>>

(***************************************************************************)
(* Bounds of the model.                                                    *)
(***************************************************************************)
MaxFiles == 3    \* entries under the input root
MaxRuns == 2     \* process invocations
MaxClock == 2    \* last instant of the modelled time, in ticks
TicksPerSecond == 2  \* instants the clock tells apart within one second
BufCap == 2      \* records the bufio.Writer holds before it flushes

(***************************************************************************)
(* Strings.                                                                *)
(***************************************************************************)
Lower(c) ==
    CASE c = "A" -> "a"
      [] c = "C" -> "c"
      [] c = "S" -> "s"
      [] c = "V" -> "v"
      [] OTHER -> c

ToLower(s) == [i \in 1..Len(s) |-> Lower(s[i])]

HasSuffix(s, suf) ==
    /\ Len(s) >= Len(suf)
    /\ SubSeq(s, Len(s) - Len(suf) + 1, Len(s)) = suf

TrimSuffix(s, suf) ==
    IF HasSuffix(s, suf) THEN SubSeq(s, 1, Len(s) - Len(suf)) ELSE s

\* filepath.Ext: the suffix beginning at the final dot, empty if there is none
Ext(s) ==
    LET dots == {i \in 1..Len(s) : s[i] = "."}
    IN  IF dots = {} THEN <<>>
        ELSE LET d == CHOOSE i \in dots : \A j \in dots : j <= i
             IN  SubSeq(s, d, Len(s))

CsvSuffix == <<".", "c", "s", "v">>

IsCsvName(name) == HasSuffix(ToLower(name), CsvSuffix)

TickerLiteralExt(name) == TrimSuffix(name, CsvSuffix)

Ticker(name) == TrimSuffix(name, Ext(name))

SecondsPerDay == 86400

\* time.Now().Format("20060102"): the calendar day of instant t
FormatDate(t) ==
    IF (t \div TicksPerSecond) \div SecondsPerDay = 0 THEN "19700101"
    ELSE "19700102"

\* time.Now().Format("20060102_150405"): instant t to the second
FormatStamp(t) == t \div TicksPerSecond

Stamps == 0..FormatStamp(MaxClock)

OutputName(t) == <<"extract_", FormatDate(t)>> \o CsvSuffix

(***************************************************************************)
(* The entries that may lie under the input root.  raw is the file's text  *)
(* as lines of fields; stem is the name without its extension.             *)
(***************************************************************************)
Entry(name, stem, isDir, nested, openOk, raw) ==
    [name |-> name, stem |-> stem, isDir |-> isDir, nested |-> nested,
     openOk |-> openOk, raw |-> raw]

BareQuote == "e\"3"

Catalog ==
    <<  \* 1: two data rows
        Entry(<<"A">> \o CsvSuffix, <<"A">>, FALSE, FALSE, TRUE,
              << <<"date", "price">>, <<"a1", "p1">>, <<"a2", "p2">> >>),
        \* 2: upper-case extension, a dot in the stem, three columns
        Entry(<<"b", ".", "x", ".", "C", "S", "V">>, <<"b", ".", "x">>,
              FALSE, FALSE, TRUE,
              << <<"day", "px", "vol">>, <<"b1", "q1", "v1">> >>),
        \* 3: same name as 1, in the subdirectory
        Entry(<<"A">> \o CsvSuffix, <<"A">>, FALSE, TRUE, TRUE,
              << <<"date", "price">>, <<"n1", "p3">> >>),
        \* 4: header only
        Entry(<<"H">> \o CsvSuffix, <<"H">>, FALSE, FALSE, TRUE,
              << <<"only", "header">> >>),
        \* 5: malformed after its first data row
        Entry(<<"E">> \o CsvSuffix, <<"E">>, FALSE, FALSE, TRUE,
              << <<"bad", "hdr">>, <<"e1", "e2">>, <<BareQuote, "e4">> >>),
        \* 6: cannot be opened
        Entry(<<"N">> \o CsvSuffix, <<"N">>, FALSE, FALSE, FALSE,
              << <<"no", "read">>, <<"x1", "x2">> >>),
        \* 7: not a csv file
        Entry(<<"n", ".", "t", "x", "t">>, <<"n">>, FALSE, FALSE, TRUE,
              << <<"text", "file">>, <<"t1", "t2">> >>),
        \* 8: the subdirectory
        Entry(<<"sub">>, <<"sub">>, TRUE, FALSE, TRUE, <<>>),
        \* 9: an input file named like the merged output of day 0
        Entry(OutputName(0), <<"extract_", "19700101">>, FALSE, FALSE, TRUE,
              << <<"old", "merge">>, <<"o1", "o2">> >>),
        \* 10: wrong number of fields in a data row
        Entry(<<"R">> \o CsvSuffix, <<"R">>, FALSE, FALSE, TRUE,
              << <<"r", "s">>, <<"r1">> >>)
    >>

Ids == 1..Len(Catalog)

SubDirId == CHOOSE i \in Ids : Catalog[i].isDir

Range(s) == {s[i] : i \in 1..Len(s)}

\* sequences of distinct entries of length n
RECURSIVE Lists(_)
Lists(n) ==
    IF n = 0 THEN {<<>>}
    ELSE LET shorter == Lists(n - 1)
         IN  {Append(l, e) : l \in shorter, e \in Ids}

Distinct(l) == \A i, j \in 1..Len(l) : i # j => l[i] # l[j]

\* a file of the subdirectory is walked after the subdirectory itself
WellFormed(l) ==
    /\ Distinct(l)
    /\ \A i \in 1..Len(l) :
         Catalog[l[i]].nested => \E j \in 1..(i - 1) : l[j] = SubDirId

Trees == UNION {{l \in Lists(n) : WellFormed(l)} : n \in 0..MaxFiles}

(***************************************************************************)
(* encoding/csv Reader.ReadAll: an error for a bare quote in a field or a  *)
(* record whose field count differs from the first record's.               *)
(***************************************************************************)
BadLine(raw, i) ==
    \/ \E k \in 1..Len(raw[i]) : raw[i][k] = BareQuote
    \/ Len(raw[i]) # Len(raw[1])

ReadAllLenient(raw) ==
    LET bad == {i \in 1..Len(raw) : BadLine(raw, i)}
    IN  IF bad = {} THEN [err |-> FALSE, records |-> raw]
        ELSE LET first == CHOOSE i \in bad : \A j \in bad : i <= j
             IN  [err |-> FALSE, records |-> SubSeq(raw, 1, first - 1)]

ReadAll(raw) ==
    IF \E i \in 1..Len(raw) : BadLine(raw, i)
    THEN [err |-> TRUE, records |-> <<>>]
    ELSE [err |-> FALSE, records |-> raw]

(***************************************************************************)
(* csv.Writer over bufio.Writer over the output file.                      *)
(* w = [buf, file, err, ok, failed]: ok is the result of the last call.    *)
(***************************************************************************)
\* Writer.Write(row); when the buffer is full it is flushed to the file
\* first, and if failNow that flush fails after keep records.
WriterWrite(w, row, failNow, keep) ==
    IF w.err THEN [w EXCEPT !.ok = FALSE]
    ELSE IF Len(w.buf) < BufCap THEN [w EXCEPT !.buf = Append(@, row)]
    ELSE IF failNow
         THEN [w EXCEPT !.file = @ \o SubSeq(w.buf, 1, keep),
                        !.buf = SubSeq(w.buf, keep + 1, Len(w.buf)),
                        !.err = TRUE, !.ok = FALSE, !.failed = TRUE]
         ELSE [w EXCEPT !.file = @ \o w.buf, !.buf = <<row>>]

\* writes rows[i..], returning at the first error; the fault-th write is the
\* one whose flush fails
RECURSIVE WriteRows(_, _, _, _, _)
WriteRows(w, rows, i, fault, keep) ==
    IF i > Len(rows) \/ ~w.ok THEN w
    ELSE WriteRows(WriterWrite(w, rows[i], i = fault, keep), rows, i + 1,
                   fault, keep)

\* Writer.Flush(), whose error nobody reads
WriterFlush(w, failNow, keep) ==
    IF w.err \/ Len(w.buf) = 0 THEN w
    ELSE IF failNow
         THEN [w EXCEPT !.file = @ \o SubSeq(w.buf, 1, keep),
                        !.buf = SubSeq(w.buf, keep + 1, Len(w.buf)),
                        !.err = TRUE, !.failed = TRUE]
         ELSE [w EXCEPT !.file = @ \o w.buf, !.buf = <<>>]

TheWriter ==
    [buf |-> buf, file |-> outFile, err |-> werr, ok |-> TRUE,
     failed |-> writeFailed]

(***************************************************************************)
(* The records the walk callback hands to the writer for one file.         *)
(***************************************************************************)
HeaderAlways(hw) == TRUE

HeaderNeeded(hw) == ~hw

RowsOf(records, ticker, hw) ==
    (IF HeaderNeeded(hw) THEN <<Append(records[1], "tick_nm")>> ELSE <<>>)
    \o [i \in 1..(Len(records) - 1) |-> Append(records[i + 1], ticker)]

(***************************************************************************)
(* Init: the first invocation is about to call processFiles.               *)
(***************************************************************************)
NoDir == 0 - 1

Init ==
    /\ clock = 0
    /\ runs = 1
    /\ tree \in Trees
    /\ present = Range(tree)
    /\ pc = "start"
    /\ idx = 1
    /\ outExists = FALSE
    /\ outFile = <<>>
    /\ buf = <<>>
    /\ werr = FALSE
    /\ writeFailed = FALSE
    /\ headerWritten = FALSE
    /\ filesProcessed = 0
    /\ mergeErr = "none"
    /\ archiveSubDir = NoDir
    /\ mkdirExisted = FALSE
    /\ archDirs = {}
    /\ archFiles = [t \in Stamps |-> {}]
    /\ files = <<>>
    /\ aidx = 1
    /\ warnRead = {}
    /\ warnMove = {}

archVars == <<archiveSubDir, mkdirExisted, archDirs, archFiles, files, aidx, warnMove>>
envVars == <<clock, runs, tree, present>>
walkVars == <<idx, headerWritten, filesProcessed, warnRead>>
writerVars == <<outFile, buf, werr, writeFailed>>

(***************************************************************************)
(* processFiles, lines 79-94: MkdirAll and os.Create of the output file.   *)
(***************************************************************************)
SetupFails ==
    /\ pc = "start"
    /\ pc' = "returned"
    /\ mergeErr' = "setup"
    /\ UNCHANGED <<envVars, walkVars, writerVars, outExists, archVars>>

SetupOk ==
    /\ pc = "start"
    /\ pc' = "walking"
    /\ outExists' = TRUE
    /\ outFile' = <<>>
    /\ buf' = <<>>
    /\ werr' = FALSE
    /\ headerWritten' = FALSE
    /\ filesProcessed' = 0
    /\ UNCHANGED <<envVars, idx, warnRead, writeFailed, mergeErr, archVars>>

(***************************************************************************)
(* The return of processFiles: the deferred writer.Flush() and             *)
(* outF.Close() run, then the result goes to main.                         *)
(***************************************************************************)
Return(w, result, failNow, keep) ==
    LET f == WriterFlush(w, failNow, keep)
    IN  /\ outFile' = f.file
        /\ buf' = f.buf
        /\ werr' = f.err
        /\ writeFailed' = f.failed
        /\ mergeErr' = result
        /\ pc' = "returned"

\* the flush of a return can fail only if it writes something
FlushChoices(w) ==
    IF w.err \/ Len(w.buf) = 0 THEN {<<FALSE, 0>>}
    ELSE {<<FALSE, 0>>} \cup {<<TRUE, k>> : k \in 0..(Len(w.buf) - 1)}

(***************************************************************************)
(* The filepath.Walk callback, lines 97-146, for the entry at idx.         *)
(***************************************************************************)
Skip ==
    /\ idx' = idx + 1
    /\ UNCHANGED <<pc, mergeErr, writerVars, headerWritten, filesProcessed>>

WalkFile ==
    /\ pc = "walking"
    /\ idx <= Len(tree)
    /\ LET id == tree[idx]
           e == Catalog[id]
           r == ReadAll(e.raw)
       IN  IF e.isDir \/ ~IsCsvName(e.name)
           THEN Skip /\ UNCHANGED warnRead
           ELSE IF ~e.openOk \/ r.err
           THEN Skip /\ warnRead' = warnRead \cup {id}
           ELSE IF Len(r.records) < 2
           THEN Skip /\ UNCHANGED warnRead
           ELSE LET rows == RowsOf(r.records, Ticker(e.name), headerWritten)
                IN  \E fault \in 0..Len(rows), keep \in 0..(BufCap - 1) :
                      LET w == WriteRows(TheWriter, rows, 1, fault, keep)
                      IN  /\ fault = 0 => keep = 0
                          /\ fault # 0 => w.failed
                          /\ IF w.ok
                             THEN /\ outFile' = w.file
                                  /\ buf' = w.buf
                                  /\ werr' = w.err
                                  /\ writeFailed' = w.failed
                                  /\ headerWritten' = TRUE
                                  /\ filesProcessed' = filesProcessed + 1
                                  /\ idx' = idx + 1
                                  /\ UNCHANGED <<pc, mergeErr>>
                             ELSE /\ Return(w, "write", FALSE, 0)
                                  /\ UNCHANGED <<idx, headerWritten, filesProcessed>>
                          /\ UNCHANGED warnRead
    /\ UNCHANGED <<envVars, outExists, archVars>>

\* the callback is called with walkErr (line 98): the walk stops
WalkError ==
    /\ pc = "walking"
    /\ \E c \in FlushChoices(TheWriter) : Return(TheWriter, "walk", c[1], c[2])
    /\ UNCHANGED <<envVars, walkVars, outExists, archVars>>

\* the walk is over (lines 148-153)
WalkDone ==
    /\ pc = "walking"
    /\ idx > Len(tree)
    /\ \E c \in FlushChoices(TheWriter) : Return(TheWriter, "nil", c[1], c[2])
    /\ UNCHANGED <<envVars, walkVars, outExists, archVars>>

(***************************************************************************)
(* main, lines 44-52.                                                      *)
(***************************************************************************)
ArchiveAnyway(err) == TRUE

ShouldArchive(err) == err = "nil"

MainAfterMerge ==
    /\ pc = "returned"
    /\ pc' = IF ShouldArchive(mergeErr) THEN "archive" ELSE "fatal"
    /\ UNCHANGED <<envVars, walkVars, writerVars, outExists, mergeErr, archVars>>

(***************************************************************************)
(* archiveAndCleanup, lines 157-189.  A file of an archive subdirectory is *)
(* [name, id, rows]: id is the input entry it was, 0 for a merged file,    *)
(* whose records are rows.                                                 *)
(***************************************************************************)
MergedFile(name, rows) == [name |-> name, id |-> 0, rows |-> rows]

SourceFile(id) == [name |-> Catalog[id].name, id |-> id, rows |-> <<>>]

\* os.Rename into a directory replaces a file of the same name
Put(dir, f) == {g \in dir : g.name # f.name} \cup {f}

\* os.MkdirAll of the subdirectory fails (lines 159-161)
ArchiveMkdirFails ==
    /\ pc = "archive"
    /\ pc' = "fatal"
    /\ UNCHANGED <<envVars, walkVars, writerVars, outExists, mergeErr, archVars>>

Mkdir(t) ==
    /\ archiveSubDir' = t
    /\ mkdirExisted' = (t \in archDirs)
    /\ archDirs' = archDirs \cup {t}

\* os.Rename of the merged file fails (lines 167-169)
ArchiveRenameFails ==
    /\ pc = "archive"
    /\ Mkdir(FormatStamp(clock))
    /\ pc' = "fatal"
    /\ UNCHANGED <<envVars, walkVars, writerVars, outExists, mergeErr,
                   archFiles, files, aidx, warnMove>>

MoveMerged(t) ==
    /\ archFiles' = [archFiles EXCEPT
                       ![t] = Put(@, MergedFile(OutputName(clock), outFile))]
    /\ outExists' = FALSE
    /\ outFile' = <<>>

\* os.ReadDir of the input root fails (lines 172-175)
ArchiveReadDirFails ==
    /\ pc = "archive"
    /\ Mkdir(FormatStamp(clock))
    /\ MoveMerged(FormatStamp(clock))
    /\ pc' = "fatal"
    /\ UNCHANGED <<envVars, walkVars, buf, werr, writeFailed, mergeErr,
                   files, aidx, warnMove>>

\* the top-level entries of the input root
TopLevel(l, here) ==
    SelectSeq(l, LAMBDA id : id \in here /\ ~Catalog[id].nested)

\* lines 158-172 without an error
ArchiveBegin ==
    /\ pc = "archive"
    /\ Mkdir(FormatStamp(clock))
    /\ MoveMerged(FormatStamp(clock))
    /\ files' = TopLevel(tree, present)
    /\ aidx' = 1
    /\ pc' = "moving"
    /\ UNCHANGED <<envVars, walkVars, buf, werr, writeFailed, mergeErr, warnMove>>

KeepQuiet(warn, id) == warn

LogMoveWarning(warn, id) == warn \cup {id}

ShouldMove(id) == ~Catalog[id].isDir

\* one turn of the loop of lines 177-185
ArchiveMove ==
    /\ pc = "moving"
    /\ aidx <= Len(files)
    /\ aidx' = aidx + 1
    /\ LET id == files[aidx]
       IN  IF ~ShouldMove(id)
           THEN UNCHANGED <<present, archFiles, warnMove>>
           ELSE \/ /\ present' = present \ {id}
                   /\ archFiles' = [archFiles EXCEPT
                                      ![archiveSubDir] = Put(@, SourceFile(id))]
                   /\ UNCHANGED warnMove
                \/ /\ warnMove' = LogMoveWarning(warnMove, id)
                   /\ UNCHANGED <<present, archFiles>>
    /\ UNCHANGED <<clock, runs, tree, walkVars, writerVars, outExists, mergeErr,
                   archiveSubDir, mkdirExisted, archDirs, files, pc>>

\* lines 187-188
ArchiveDone ==
    /\ pc = "moving"
    /\ aidx > Len(files)
    /\ pc' = "done"
    /\ UNCHANGED <<envVars, walkVars, writerVars, outExists, mergeErr, archVars>>

(***************************************************************************)
(* The environment: time passes between invocations, and the program is    *)
(* invoked again on what is left under the input root.                     *)
(***************************************************************************)
Exited == pc \in {"done", "fatal"}

Tick ==
    /\ Exited
    /\ clock < MaxClock
    /\ clock' = clock + 1
    /\ UNCHANGED <<runs, tree, present, pc, walkVars, writerVars, outExists,
                   mergeErr, archVars>>

NewRun ==
    /\ Exited
    /\ runs < MaxRuns
    /\ runs' = runs + 1
    /\ tree' = SelectSeq(tree, LAMBDA id : id \in present)
    /\ pc' = "start"
    /\ idx' = 1
    /\ buf' = <<>>
    /\ werr' = FALSE
    /\ writeFailed' = FALSE
    /\ headerWritten' = FALSE
    /\ filesProcessed' = 0
    /\ mergeErr' = "none"
    /\ archiveSubDir' = NoDir
    /\ mkdirExisted' = FALSE
    /\ files' = <<>>
    /\ aidx' = 1
    /\ warnRead' = {}
    /\ warnMove' = {}
    /\ UNCHANGED <<clock, present, outExists, outFile, archDirs, archFiles>>

\* one invocation of the program
Next ==
    \/ SetupFails
    \/ SetupOk
    \/ WalkFile
    \/ WalkError
    \/ WalkDone
    \/ MainAfterMerge
    \/ ArchiveMkdirFails
    \/ ArchiveRenameFails
    \/ ArchiveReadDirFails
    \/ ArchiveBegin
    \/ ArchiveMove
    \/ ArchiveDone

Spec == Init /\ [][Next]_vars

\* invocations one after another against the same directories
NextRuns ==
    \/ Next
    \/ Tick
    \/ NewRun

SpecRuns == Init /\ [][NextRuns]_vars

(***************************************************************************)
(* What the claims speak of.                                               *)
(***************************************************************************)
\* the records the writer has accepted, in order
Stream == outFile \o buf

\* this run has created the output file and not yet archived it
InMerge == pc \in {"walking", "returned"} /\ mergeErr # "setup"

IsPrefix(s, t) == Len(s) <= Len(t) /\ SubSeq(t, 1, Len(s)) = s

Last(s) == s[Len(s)]

Malformed(raw) == \E i \in 1..Len(raw) : BadLine(raw, i)

\* a candidate file that cannot be opened or parsed
ReadFails(id) ==
    LET e == Catalog[id]
    IN  ~e.isDir /\ IsCsvName(e.name) /\ (~e.openOk \/ Malformed(e.raw))

\* a candidate file that opens, parses and has at least 2 records
Contributes(id) ==
    LET e == Catalog[id]
    IN  /\ ~e.isDir
        /\ IsCsvName(e.name)
        /\ e.openOk
        /\ ~Malformed(e.raw)
        /\ Len(e.raw) >= 2

RECURSIVE SumRows(_)
SumRows(l) ==
    IF l = <<>> THEN 0
    ELSE (IF Contributes(l[1]) THEN Len(Catalog[l[1]].raw) - 1 ELSE 0)
         + SumRows(Tail(l))

\* the merge of a list of entries all of which can be read
RECURSIVE DataOf(_)
DataOf(l) ==
    IF l = <<>> THEN <<>>
    ELSE LET e == Catalog[l[1]]
         IN  (IF ~e.isDir /\ IsCsvName(e.name) /\ Len(e.raw) >= 2
              THEN [j \in 1..(Len(e.raw) - 1) |-> Append(e.raw[j + 1], e.stem)]
              ELSE <<>>)
             \o DataOf(Tail(l))

MergeOf(l) ==
    LET good == SelectSeq(l, LAMBDA id : /\ ~Catalog[id].isDir
                                         /\ IsCsvName(Catalog[id].name)
                                         /\ Len(Catalog[id].raw) >= 2)
    IN  IF good = <<>> THEN <<>>
        ELSE <<Append(Catalog[good[1]].raw[1], "tick_nm")>> \o DataOf(l)

Walked == SubSeq(tree, 1, idx - 1)

InArchive(id) ==
    /\ archiveSubDir # NoDir
    /\ SourceFile(id) \in archFiles[archiveSubDir]

(***************************************************************************)
(* C1: whenever processFiles returns nil, the merged file holds, besides   *)
(* its header, exactly one row for every data record of every file that    *)
(* opened, parsed and has at least 2 records: their number is the sum of   *)
(* (record count - 1), none is dropped and none is duplicated.             *)
(***************************************************************************)
RowCountConserved ==
    (pc = "returned" /\ mergeErr = "nil") =>
        /\ (IF Len(outFile) = 0 THEN 0 ELSE Len(outFile) - 1) = SumRows(tree)
        /\ \A k \in 1..Len(tree) :
             Contributes(tree[k]) =>
               \A j \in 2..Len(Catalog[tree[k]].raw) :
                 Cardinality({i \in 1..Len(outFile) :
                     outFile[i] = Append(Catalog[tree[k]].raw[j],
                                         Catalog[tree[k]].stem)}) = 1

(***************************************************************************)
(* C2: the output has at most one header row; it is the first row, and it  *)
(* is the first record of the first file of the walk that parsed with at   *)
(* least 2 records, with tick_nm appended; a file that fails to parse or   *)
(* has fewer than 2 records never sets it, later files write no second.    *)
(***************************************************************************)
FirstContributor ==
    CHOOSE k \in 1..Len(tree) :
        Contributes(tree[k]) /\ \A m \in 1..(k - 1) : ~Contributes(tree[m])

HeaderOf(s) ==
    /\ \A i \in 2..Len(s) : Last(s[i]) # "tick_nm"
    /\ Len(s) > 0 =>
         /\ \E k \in 1..Len(tree) : Contributes(tree[k]) /\ k <= idx
         /\ s[1] = Append(Catalog[tree[FirstContributor]].raw[1], "tick_nm")

HeaderSelection ==
    InMerge =>
        /\ HeaderOf(Stream)
        /\ HeaderOf(outFile)
        /\ headerWritten <=> (\E k \in 1..(idx - 1) : Contributes(tree[k]))
        /\ headerWritten => Len(Stream) > 0

HeaderSelectionWitness ==
    /\ pc = "returned"
    /\ mergeErr = "nil"
    /\ ~writeFailed
    /\ Len(tree) = 3
    /\ ~Contributes(tree[1])
    /\ Catalog[tree[1]].raw # <<>>
    /\ Contributes(tree[2])
    /\ Contributes(tree[3])
    /\ Len(outFile) >= 3

(***************************************************************************)
(* C3: every data row of the output is one data record of one source file, *)
(* fields in order, followed by one more field: that file's name without   *)
(* its extension.                                                          *)
(***************************************************************************)
DataRowOf(row, id) ==
    \E j \in 2..Len(Catalog[id].raw) :
        row = Append(Catalog[id].raw[j], Catalog[id].stem)

Provenance ==
    InMerge =>
        \A i \in 2..Len(Stream) :
            \E k \in 1..Len(tree) :
                /\ k <= idx
                /\ Contributes(tree[k])
                /\ DataRowOf(Stream[i], tree[k])

ProvenanceWitness ==
    /\ pc = "returned"
    /\ mergeErr = "nil"
    /\ \E i, j \in 2..Len(outFile), a, b \in Range(tree) :
         /\ DataRowOf(outFile[i], a)
         /\ DataRowOf(outFile[j], b)
         /\ Catalog[a].stem # Catalog[b].stem
         /\ Ext(Catalog[a].name) # CsvSuffix

(***************************************************************************)
(* C4: archiving starts only after processFiles returned nil; if it        *)
(* returned an error, this run creates no archive subdirectory and the     *)
(* input root keeps all its entries.                                       *)
(***************************************************************************)
MergeGatesArchive ==
    /\ pc \in {"archive", "moving", "done"} => mergeErr = "nil"
    /\ archiveSubDir # NoDir => mergeErr = "nil"
    /\ mergeErr \in {"setup", "walk", "write"} =>
         /\ archiveSubDir = NoDir
         /\ present = Range(tree)
         /\ \A id \in Range(tree) : ~InArchive(id)

MergeGatesArchiveWitness ==
    /\ pc = "fatal"
    /\ mergeErr = "write"
    /\ Len(tree) >= 2
    /\ archiveSubDir = NoDir

(***************************************************************************)
(* C5 as claimed: after a successful merge and archiving, every top-level  *)
(* entry of the input root is either gone from it and in the archive       *)
(* subdirectory, or still there with a warning logged for it.              *)
(***************************************************************************)
MovedOrWarned(id) ==
    \/ id \notin present /\ InArchive(id)
    \/ id \in present /\ id \in warnMove

EveryEntryMovedOrWarned ==
    pc = "done" =>
        \A id \in Range(tree) : ~Catalog[id].nested => MovedOrWarned(id)

(***************************************************************************)
(* C5 amended: that holds of every top-level entry that is not a           *)
(* directory; a top-level directory stays in the input root and no         *)
(* warning is logged for it.                                               *)
(***************************************************************************)
EveryFileMovedOrWarned ==
    pc = "done" =>
        \A id \in Range(tree) :
            ~Catalog[id].nested =>
                IF Catalog[id].isDir
                THEN id \in present /\ id \notin warnMove
                ELSE MovedOrWarned(id)

EveryFileMovedOrWarnedWitness ==
    /\ pc = "done"
    /\ \E a, b, c \in Range(tree) :
         /\ a \notin present /\ InArchive(a)
         /\ b \in present /\ b \in warnMove
         /\ Catalog[c].isDir

(***************************************************************************)
(* C6: if a write to the output file fails, at a Write or at the final     *)
(* flush, processFiles returns an error and the run never archives.        *)
(***************************************************************************)
WriteErrorIsFatal ==
    writeFailed =>
        /\ pc \notin {"archive", "moving", "done"}
        /\ pc = "returned" => mergeErr # "nil"

(***************************************************************************)
(* C7: a file that cannot be opened or parsed gets a warning, contributes  *)
(* nothing (no header, none of its rows), causes no error return, and the  *)
(* files after it are merged: the output is the merge of the other files.  *)
(***************************************************************************)
StartsWith(row, rec) == Len(row) >= Len(rec) /\ SubSeq(row, 1, Len(rec)) = rec

Readable(l) == SelectSeq(l, LAMBDA id : ~ReadFails(id))

ReadErrorsIsolated ==
    InMerge =>
        /\ \A k \in 1..(idx - 1) : ReadFails(tree[k]) => tree[k] \in warnRead
        /\ \A id \in Range(tree) :
             ReadFails(id) =>
               \A i \in 1..Len(Stream), j \in 1..Len(Catalog[id].raw) :
                 ~StartsWith(Stream[i], Catalog[id].raw[j])
        /\ mergeErr \in {"none", "nil", "walk"} =>
             /\ Stream = MergeOf(Readable(Walked))
             /\ IsPrefix(outFile, MergeOf(Readable(Walked)))
        /\ (mergeErr = "nil" /\ ~writeFailed) =>
             outFile = MergeOf(Readable(tree))
        /\ mergeErr = "write" => writeFailed
        /\ (pc = "walking" /\ \E k \in 1..(idx - 1) : ReadFails(tree[k])) =>
             mergeErr = "none"

ReadErrorsIsolatedWitness ==
    /\ pc = "returned"
    /\ mergeErr = "nil"
    /\ Len(tree) = 3
    /\ ~Catalog[tree[1]].openOk
    /\ Malformed(Catalog[tree[2]].raw)
    /\ Len(Catalog[tree[2]].raw) >= 3
    /\ warnRead = {tree[1], tree[2]}
    /\ Contributes(tree[3])
    /\ outFile = MergeOf(<<tree[3]>>)

(***************************************************************************)
(* C8: after a run whose merge succeeded (no write to the output failed)   *)
(* and in which no move failed, every file the merge read rows from is in  *)
(* the archive subdirectory and no longer under the input root.            *)
(***************************************************************************)
AllSourcesArchived ==
    (pc = "done" /\ warnMove = {} /\ ~writeFailed) =>
        \A id \in Range(tree) :
            Contributes(id) => id \notin present /\ InArchive(id)

(***************************************************************************)
(* C9: the archive subdirectory a run uses did not exist before that       *)
(* run's archive step, so no two runs put their files in the same one.     *)
(***************************************************************************)
ArchiveBatchFresh == pc \in {"moving", "done"} => ~mkdirExisted

(***************************************************************************)
(* C10: after archiveAndCleanup returns nil, the file of the merged        *)
(* output's name in the archive subdirectory is the merged output; no      *)
(* move of a source file has replaced it.                                  *)
(***************************************************************************)
MergedFileKept ==
    pc = "done" =>
        \E f \in archFiles[archiveSubDir] :
            f.name = OutputName(clock) /\ f.id = 0

====
